---- MODULE Spec2Model ----
(***************************************************************************)
(* A model of proxy_bench (src/main.py): the benchmark driver `main`, the  *)
(* process runner (start_singbox, terminate_process), the transfer         *)
(* (run_curl) and the stream handler (InfiniteHandler.do_GET); the pure    *)
(* helpers gen_ss_config and get_pwd_for_method are also called on their   *)
(* own, on inputs main never gives them.                                   *)
(*                                                                         *)
(* External programs (sing-box, openssl, curl, the OS) are the             *)
(* environment: every outcome they can produce is a nondeterministic       *)
(* choice of the action that calls them.                                   *)
(***************************************************************************)
EXTENDS Integers, Sequences, FiniteSets, TLC

VARIABLES
    pc,          \* position of main (the line it is about to execute)
    k,           \* number of iterations of the for loop begun so far
    sp, cp,      \* main's port counters
    results,     \* main's results list: <<method, speed or None>>
    password,    \* the secret of the current iteration
    server_cfg,  \* the config objects of the current iteration
    client_cfg,
    files,       \* config files written into WORKDIR
    srv, cli,    \* the process handles of the current iteration (or None)
    alive,       \* the tunnel processes that are running
    tpc,         \* position inside terminate_process ("idle": not in it)
    pending,     \* exception in flight while terminate_process's finally runs
    log,         \* calls made by the current iteration, in order
    httpd,       \* the stream server: "none", "serving", "closed"
    exc,         \* the exception that left main, or NoExc
    exitStatus,  \* the process exit status, -1 while running
    faults,      \* teardown calls that raised or timed out so far
    hpc,         \* position of do_GET for one request
    path,        \* the request's path
    status,      \* the response status sent (0: none yet)
    sent,        \* do_GET's local `sent`, in KiB
    wrote,       \* body KiB handed to the socket for this request
    herr,        \* the last exception a write of do_GET raised, or "none"
    arg          \* the argument of a function called on its own, or NoArg

vars == << pc, k, sp, cp, results, password, server_cfg, client_cfg, files,
           srv, cli, alive, tpc, pending, log, httpd, exc, exitStatus, faults,
           hpc, path, status, sent, wrote, herr, arg >>

driverVars == << pc, k, sp, cp, results, password, server_cfg, client_cfg,
                 files, srv, cli, alive, tpc, pending, log, httpd, exc,
                 exitStatus, faults >>

handlerVars == << hpc, path, status, sent, wrote, herr >>

(***************************************************************************)
(* Program constants.                                                      *)
(***************************************************************************)
BASE_CLIENT_PORT == 15000
BASE_SERVER_PORT == 20000
HTTP_SERVER_PORT == 8000
DURATION == 12

\* Byte counts of the stream handler are kept in KiB: 8 << 30 bytes does not
\* fit TLC's 32-bit integers.  8 << 30 B = 8 * 2^20 KiB; 1 MiB = 1024 KiB.
MAX_TEST_BYTES == 8 * 1024 * 1024
ChunkLen == 1024

\* main's `tests`, with each 1-tuple unpacked to its method.
tests == << "none", "aes-128-gcm", "aes-256-gcm", "chacha20-ietf-poly1305",
            "2022-blake3-aes-128-gcm", "2022-blake3-aes-256-gcm" >>

\* Python's None; a handle, a speed and a password are tuples or records too.
None == << >>

\* No exception has left main.
NoExc == [type |-> "none", from |-> "none"]

(***************************************************************************)
(* Bounds of the model.                                                    *)
(***************************************************************************)
\* Teardown calls (terminate, wait, kill) that raise or time out in one run.
MaxFaults == 2

(***************************************************************************)
(* Exceptions.  `except Exception` catches every exception class of the    *)
(* program but KeyboardInterrupt, which derives from BaseException.        *)
(***************************************************************************)
ExceptionTypes == {"OSError", "CalledProcessError", "TimeoutExpired",
                   "ValueError", "KeyboardInterrupt"}

IsException(e) == e \in ExceptionTypes \ {"KeyboardInterrupt"}

(***************************************************************************)
(* Strings that the code inspects are sequences of one-character strings.  *)
(***************************************************************************)
Chars(m) ==
    CASE m = "none" -> << "n", "o", "n", "e" >>
      [] m = "aes-128-gcm" ->
            << "a", "e", "s", "-", "1", "2", "8", "-", "g", "c", "m" >>
      [] m = "aes-256-gcm" ->
            << "a", "e", "s", "-", "2", "5", "6", "-", "g", "c", "m" >>
      [] m = "chacha20-ietf-poly1305" ->
            << "c", "h", "a", "c", "h", "a", "2", "0", "-", "i", "e", "t",
               "f", "-", "p", "o", "l", "y", "1", "3", "0", "5" >>
      [] m = "2022-blake3-aes-128-gcm" ->
            << "2", "0", "2", "2", "-", "b", "l", "a", "k", "e", "3", "-",
               "a", "e", "s", "-", "1", "2", "8", "-", "g", "c", "m" >>
      [] m = "2022-blake3-aes-256-gcm" ->
            << "2", "0", "2", "2", "-", "b", "l", "a", "k", "e", "3", "-",
               "a", "e", "s", "-", "2", "5", "6", "-", "g", "c", "m" >>

\* Python's `sub in s` for strings.
Contains(s, sub) ==
    \E i \in 1 .. (Len(s) - Len(sub) + 1) : SubSeq(s, i, i + Len(sub) - 1) = sub

\* gen_password: the secret openssl returns for `bits`, kept as its byte count.
gen_password(bits) == [bytes |-> bits \div 8]

\* Mutant: the test of line 76 is missing.
get_pwd_for_methodAlways256(name) == gen_password(256)

\* Lines 75-78; `name` is the method name as a sequence of characters.
get_pwd_for_method(name) ==
    IF Contains(name, << "1", "2", "8" >>)
    THEN gen_password(128)
    ELSE gen_password(256)

\* Mutant: the client's routing rule sends the traffic to the direct outbound.
gen_ss_configRouteDirect(method, pwd, server_port, client_port) ==
    LET server ==
            [log |-> [level |-> "error", timestamp |-> FALSE],
             inbounds |-> << [type |-> "shadowsocks", tag |-> "ss-in",
                              listen |-> "127.0.0.1",
                              listen_port |-> server_port,
                              method |-> method, password |-> pwd] >>,
             outbounds |-> << [type |-> "direct", tag |-> "direct"] >>]
        client ==
            [log |-> [level |-> "error", timestamp |-> FALSE],
             inbounds |-> << [type |-> "socks", tag |-> "socks-in",
                              listen |-> "127.0.0.1",
                              listen_port |-> client_port] >>,
             outbounds |-> << [type |-> "shadowsocks", tag |-> "ss-out",
                               server |-> "127.0.0.1",
                               server_port |-> server_port,
                               method |-> method, password |-> pwd],
                              [type |-> "direct", tag |-> "direct"] >>,
             route |-> [rules |-> << [outbound |-> "direct"] >>]]
    IN  << server, client >>

gen_ss_config(method, pwd, server_port, client_port) ==
    LET server ==
            [log |-> [level |-> "error", timestamp |-> FALSE],
             inbounds |-> << [type |-> "shadowsocks", tag |-> "ss-in",
                              listen |-> "127.0.0.1",
                              listen_port |-> server_port,
                              method |-> method, password |-> pwd] >>,
             outbounds |-> << [type |-> "direct", tag |-> "direct"] >>]
        client ==
            [log |-> [level |-> "error", timestamp |-> FALSE],
             inbounds |-> << [type |-> "socks", tag |-> "socks-in",
                              listen |-> "127.0.0.1",
                              listen_port |-> client_port] >>,
             outbounds |-> << [type |-> "shadowsocks", tag |-> "ss-out",
                               server |-> "127.0.0.1",
                               server_port |-> server_port,
                               method |-> method, password |-> pwd],
                              [type |-> "direct", tag |-> "direct"] >>,
             route |-> [rules |-> << [outbound |-> "ss-out"] >>]]
    IN  << server, client >>

(***************************************************************************)
(* run_curl's parsing of curl's output: out.strip(), then float(out).      *)
(* Outputs are drawn from the alphabet of digits, "x", " " and "\n", over  *)
(* which float() accepts exactly the non-empty digit strings.              *)
(***************************************************************************)
Digits == << "0", "1", "2", "3", "4", "5", "6", "7", "8", "9" >>

IsDigit(c) == \E d \in 1 .. 10 : Digits[d] = c

DigitVal(c) == (CHOOSE d \in 1 .. 10 : Digits[d] = c) - 1

IsSpace(c) == c \in {" ", "\n"}

RECURSIVE LStrip(_)
LStrip(s) == IF s # << >> /\ IsSpace(Head(s)) THEN LStrip(Tail(s)) ELSE s

RECURSIVE RStrip(_)
RStrip(s) ==
    IF s # << >> /\ IsSpace(s[Len(s)])
    THEN RStrip(SubSeq(s, 1, Len(s) - 1))
    ELSE s

Strip(s) == RStrip(LStrip(s))

RECURSIVE DecimalValue(_)
DecimalValue(s) ==
    IF s = << >> THEN 0
    ELSE 10 * DecimalValue(SubSeq(s, 1, Len(s) - 1)) + DigitVal(s[Len(s)])

\* float(s): the value, or ValueError.
Float(s) ==
    IF s # << >> /\ \A i \in 1 .. Len(s) : IsDigit(s[i])
    THEN [ok |-> TRUE, val |-> DecimalValue(s)]
    ELSE [ok |-> FALSE, val |-> 0]

\* speed_bps / (1024 * 1024): the quotient as numerator and denominator.
MiBPerSec(speed_bps) == << speed_bps, 1024 * 1024 >>

\* What curl can print when it exits with status 0.
CurlOutputs ==
    { << "1", "2", "5", "0", "0", "0", "0", "0", "\n" >>,
      << "\n" >>,
      << >>,
      << "x", "\n" >>,
      << "1", "2", " ", "5", "\n" >>,
      << "1", "2", "x", "\n" >> }

(***************************************************************************)
(* The driver: main().                                                     *)
(***************************************************************************)
\* The method of the current iteration: `method` of the for loop.
method == tests[k]

\* A tunnel process is named by the iteration that launched it and its role.
Proc(role) == << k, role >>

Procs == (1 .. Len(tests)) \X {"server", "client"}

NoConfig == << >>

\* No function is being called on its own.
NoArg == << >>

InitDriver ==
    /\ pc = "start"
    /\ k = 0
    /\ sp = BASE_SERVER_PORT
    /\ cp = BASE_CLIENT_PORT
    /\ results = << >>
    /\ password = None
    /\ server_cfg = NoConfig
    /\ client_cfg = NoConfig
    /\ files = {}
    /\ srv = None
    /\ cli = None
    /\ alive = {}
    /\ tpc = "idle"
    /\ pending = "none"
    /\ log = << >>
    /\ httpd = "none"
    /\ exc = NoExc
    /\ exitStatus = -1
    /\ faults = 0
    /\ arg = NoArg

InitHandler ==
    /\ hpc = "idle"
    /\ path = ""
    /\ status = 0
    /\ sent = 0
    /\ wrote = 0
    /\ herr = "none"

Init == InitDriver /\ InitHandler

\* Mutant: line 278 is missing, an interrupted run exits like a complete one.
RaiseInterruptExitsZero(e, where) ==
    /\ exc' = [type |-> e, from |-> where]
    /\ pc' = "exit"
    /\ exitStatus' = IF e = "KeyboardInterrupt" THEN 0 ELSE 1

\* An exception leaves main: KeyboardInterrupt is caught at the entry point,
\* which exits with 1; any other ends the interpreter with a traceback and 1.
Raise(e, where) ==
    /\ exc' = [type |-> e, from |-> where]
    /\ pc' = "exit"
    /\ exitStatus' = 1

\* Mutant: line 60 is missing, the serving thread is never started.
StartHttpServerNoThread ==
    /\ pc = "start"
    /\ \/ /\ httpd' = httpd
          /\ pc' = "loop"
          /\ UNCHANGED << exc, exitStatus >>
       \/ /\ Raise("OSError", "start_http_server")
          /\ UNCHANGED httpd
    /\ UNCHANGED << k, sp, cp, results, password, server_cfg, client_cfg,
                    files, srv, cli, alive, tpc, pending, log, faults >>
    /\ UNCHANGED << handlerVars, arg >>

\* Line 197: start_http_server() binds the port and starts the thread.
StartHttpServer ==
    /\ pc = "start"
    /\ \/ /\ httpd' = "serving"
          /\ pc' = "loop"
          /\ UNCHANGED << exc, exitStatus >>
       \/ /\ Raise("OSError", "start_http_server")
          /\ UNCHANGED httpd
    /\ UNCHANGED << k, sp, cp, results, password, server_cfg, client_cfg,
                    files, srv, cli, alive, tpc, pending, log, faults >>
    /\ UNCHANGED << handlerVars, arg >>

\* Line 212: the for loop takes the next method (and line 213 prints it).
NextMethod ==
    /\ pc = "loop"
    /\ k < Len(tests)
    /\ k' = k + 1
    /\ log' = << >>
    /\ pc' = "gen_pwd"
    /\ UNCHANGED << sp, cp, results, password, server_cfg, client_cfg, files,
                    srv, cli, alive, tpc, pending, httpd, exc, exitStatus,
                    faults >>
    /\ UNCHANGED << handlerVars, arg >>

\* Line 214: get_pwd_for_method runs openssl; check_output raises when openssl
\* is missing or exits with an error.
GenPassword ==
    /\ pc = "gen_pwd"
    /\ \/ /\ password' = get_pwd_for_method(Chars(method))
          /\ pc' = "write_cfg"
          /\ UNCHANGED << exc, exitStatus >>
       \/ /\ \E e \in {"CalledProcessError", "OSError"} : Raise(e, "gen_password")
          /\ UNCHANGED password
    /\ UNCHANGED << k, sp, cp, results, server_cfg, client_cfg, files, srv,
                    cli, alive, tpc, pending, log, httpd, faults >>
    /\ UNCHANGED << handlerVars, arg >>

\* The config paths of lines 218-219.
s_path == << "server", method >>
c_path == << "client", method >>

\* write_cfg (lines 81-83): the file at `fpath` holds the object's JSON text,
\* kept here as the object.  A file of the same path is overwritten.
write_cfg(obj, fpath) ==
    {f \in files : f.path # fpath} \cup {[path |-> fpath, cfg |-> obj]}

\* Lines 216-222: gen_ss_config at the current ports, then both write_cfg
\* calls; open() or the write may raise OSError in either.
WriteConfigs ==
    /\ pc = "write_cfg"
    /\ LET cfgs == gen_ss_config(method, password, sp, cp)
       IN  /\ server_cfg' = cfgs[1]
           /\ client_cfg' = cfgs[2]
           /\ \/ /\ files' = write_cfg(cfgs[1], s_path)
                             \cup {[path |-> c_path, cfg |-> cfgs[2]]}
                 /\ pc' = "start_srv"
                 /\ UNCHANGED << exc, exitStatus >>
              \/ /\ files' \in {files, write_cfg(cfgs[1], s_path)}
                 /\ Raise("OSError", "write_cfg")
    /\ UNCHANGED << k, sp, cp, results, password, srv, cli, alive, tpc,
                    pending, log, httpd, faults >>
    /\ UNCHANGED << handlerVars, arg >>

\* Port increments of main: lines 227-228 and 235-236, and lines 254-255.
StrideStartFailed == 1
StrideMeasured == 2

\* Mutant: a start failure advances the ports by the stride of a measured
\* iteration.
RecordStartFailureStrideTwo ==
    /\ results' = Append(results, << method, None >>)
    /\ sp' = sp + StrideMeasured
    /\ cp' = cp + StrideMeasured
    /\ pc' = "loop"

\* Lines 226-229 and 234-237: record the failure, advance the ports, continue.
RecordStartFailure ==
    /\ results' = Append(results, << method, None >>)
    /\ sp' = sp + StrideStartFailed
    /\ cp' = cp + StrideStartFailed
    /\ pc' = "loop"

\* Lines 87-92 for the server (line 224): Popen launches sing-box, or raises.
LaunchServer ==
    /\ pc = "start_srv"
    /\ log' = Append(log, << "start_singbox", "server", sp >>)
    /\ \/ /\ alive' = alive \cup {Proc("server")}
          /\ pc' = "srv_settle"
          /\ UNCHANGED << exc, exitStatus >>
       \/ /\ Raise("OSError", "start_singbox")
          /\ UNCHANGED alive
    /\ UNCHANGED << k, sp, cp, results, password, server_cfg, client_cfg,
                    files, srv, cli, tpc, pending, httpd, faults >>
    /\ UNCHANGED << handlerVars, arg >>

\* Lines 93-100 for the server, then lines 225-229: after the settle sleep
\* poll() tells whether the process exited.
SettleServer ==
    /\ pc = "srv_settle"
    /\ \/ /\ alive' = alive \ {Proc("server")}
          /\ srv' = None
          /\ RecordStartFailure
       \/ /\ srv' = Proc("server")
          /\ pc' = "start_cli"
          /\ UNCHANGED << alive, results, sp, cp >>
    /\ UNCHANGED << k, password, server_cfg, client_cfg, files, cli, tpc,
                    pending, log, httpd, exc, exitStatus, faults >>
    /\ UNCHANGED << handlerVars, arg >>

\* Lines 87-92 for the client (line 231).
LaunchClient ==
    /\ pc = "start_cli"
    /\ log' = Append(log, << "start_singbox", "client", cp >>)
    /\ \/ /\ alive' = alive \cup {Proc("client")}
          /\ pc' = "cli_settle"
          /\ UNCHANGED << exc, exitStatus >>
       \/ /\ Raise("OSError", "start_singbox")
          /\ UNCHANGED alive
    /\ UNCHANGED << k, sp, cp, results, password, server_cfg, client_cfg,
                    files, srv, cli, tpc, pending, httpd, faults >>
    /\ UNCHANGED << handlerVars, arg >>

\* Mutant: the check of line 232 is missing, main goes on to the transfer.
SettleClientKeepsGoing ==
    /\ pc = "cli_settle"
    /\ \/ /\ alive' = alive \ {Proc("client")}
          /\ cli' = None
          /\ pc' = "curl"
       \/ /\ cli' = Proc("client")
          /\ pc' = "curl"
          /\ UNCHANGED alive
    /\ UNCHANGED << k, sp, cp, results, password, server_cfg, client_cfg,
                    files, srv, tpc, pending, log, httpd, exc, exitStatus,
                    faults >>
    /\ UNCHANGED << handlerVars, arg >>

\* Lines 93-100 for the client, then line 232: on failure main goes on to
\* terminate_process(srv) at line 233.
SettleClient ==
    /\ pc = "cli_settle"
    /\ \/ /\ alive' = alive \ {Proc("client")}
          /\ cli' = None
          /\ pc' = "cli_failed"
       \/ /\ cli' = Proc("client")
          /\ pc' = "curl"
          /\ UNCHANGED alive
    /\ UNCHANGED << k, sp, cp, results, password, server_cfg, client_cfg,
                    files, srv, tpc, pending, log, httpd, exc, exitStatus,
                    faults >>
    /\ UNCHANGED << handlerVars, arg >>

(***************************************************************************)
(* run_curl (lines 170-193).                                               *)
(***************************************************************************)
\* Mutant: curl is pointed at the stream server's port as its proxy.
curl_cmdProxyIsTarget(client_port) ==
    [proxy_port |-> HTTP_SERVER_PORT,
     max_time |-> DURATION + 2,
     url_port |-> HTTP_SERVER_PORT,
     url_path |-> "/bench"]

\* Lines 171-184: the curl command, by the parts of it that vary: the port of
\* the SOCKS proxy (-x), --max-time, and the port and path of the URL.
curl_cmd(client_port) ==
    [proxy_port |-> client_port,
     max_time |-> DURATION + 2,
     url_port |-> HTTP_SERVER_PORT,
     url_path |-> "/bench"]

\* What the curl subprocess can do: fail to spawn, exit with an error (a
\* timeout of --max-time included), or exit with 0 having printed `out`.
CurlOutcomes ==
    {[kind |-> "spawn_error", out |-> << >>],
     [kind |-> "exit_error", out |-> << >>]}
        \cup {[kind |-> "output", out |-> o] : o \in CurlOutputs}

\* The exception raised inside run_curl's try block (lines 186-188), if any.
CurlRaised(o) ==
    CASE o.kind = "spawn_error" -> "OSError"
      [] o.kind = "exit_error" -> "CalledProcessError"
      [] OTHER -> IF Float(Strip(o.out)).ok THEN "none" ELSE "ValueError"

\* Mutant: line 189 catches only the errors of the subprocess.
CurlCatchesProcessErrors(e) == e \in {"CalledProcessError", "OSError"}

\* Line 189: `except Exception`.
CurlCatches(e) == IsException(e)

\* run_curl's result: the speed it returns, or the exception that leaves it.
run_curl(o) ==
    LET e == CurlRaised(o)
    IN  IF e = "none"
        THEN [raised |-> "none", value |-> MiBPerSec(Float(Strip(o.out)).val)]
        ELSE IF CurlCatches(e)
             THEN [raised |-> "none", value |-> None]
             ELSE [raised |-> e, value |-> None]

\* Mutant: the else branch of line 246 records nothing.
RecordMeasurementOnlySuccess(speed_mib) ==
    IF speed_mib # None
    THEN results' = Append(results, << method, speed_mib >>)
    ELSE results' = results

\* Lines 242-248: the result recorded for the speed run_curl returned.
RecordMeasurement(speed_mib) ==
    IF speed_mib # None
    THEN results' = Append(results, << method, speed_mib >>)
    ELSE results' = Append(results, << method, None >>)

\* Lines 239-248: the stabilization sleep, the transfer and its recording.
\* The log keeps the call and what happened inside its try block.
RunCurl ==
    /\ pc = "curl"
    /\ \E o \in CurlOutcomes :
         LET r == run_curl(o)
         IN  /\ log' = log \o << << "run_curl", "client",
                                    curl_cmd(cp).proxy_port >>,
                                 << "curl_raised", CurlRaised(o), 0 >> >>
             /\ IF r.raised # "none"
                THEN /\ Raise(r.raised, "run_curl")
                     /\ UNCHANGED results
                ELSE /\ RecordMeasurement(r.value)
                     /\ pc' = "term_cli"
                     /\ UNCHANGED << exc, exitStatus >>
    /\ UNCHANGED << k, sp, cp, password, server_cfg, client_cfg, files, srv,
                    cli, alive, tpc, pending, httpd, faults >>
    /\ UNCHANGED << handlerVars, arg >>

(***************************************************************************)
(* terminate_process (lines 103-115), called at lines 233, 250 and 251.    *)
(***************************************************************************)
\* Where main is when it calls terminate_process.
TermSites == {"cli_failed", "term_cli", "term_srv", "call"}

\* The argument p of the call.
P == IF pc = "term_cli" THEN cli ELSE srv

RoleOf(p) == IF p = None THEN "none" ELSE p[2]

\* Mutant: line 251 is missing, the server is not torn down after a transfer.
ReturnToMainSkipServer ==
    pc' = CASE pc = "cli_failed" -> "record_fail"
            [] pc = "term_cli" -> "advance"
            [] pc = "term_srv" -> "advance"
            [] OTHER -> "returned"

\* terminate_process returns: main goes on after the call.  After line 233
\* come lines 234-237; after line 250, line 251; after line 251, lines
\* 253-255.
ReturnToMain ==
    pc' = CASE pc = "cli_failed" -> "record_fail"
            [] pc = "term_cli" -> "term_srv"
            [] pc = "term_srv" -> "advance"
            [] OTHER -> "returned"

\* Line 109: `except Exception` of the outer try.
TerminateCatches(e) == IsException(e)

\* Mutant: p.kill() is not guarded.
KillCatchesNothing(e) == FALSE

\* Line 114: `except Exception` around p.kill().
KillCatches(e) == IsException(e)

\* Lines 104-105: `if not p: return`.
TpEnter ==
    /\ pc \in TermSites
    /\ tpc = "idle"
    /\ log' = Append(log, << "terminate_process", RoleOf(P), 0 >>)
    /\ IF P = None
       THEN /\ ReturnToMain
            /\ UNCHANGED tpc
       ELSE /\ tpc' = "terminate"
            /\ UNCHANGED pc
    /\ UNCHANGED << k, sp, cp, results, password, server_cfg, client_cfg, files, srv, cli,
                    alive, pending, httpd, exc, exitStatus, faults >>
    /\ UNCHANGED << handlerVars, arg >>

\* An exception raised in the try block of lines 106-108: the handler of line
\* 109 takes it, or it stays in flight while the finally block runs.
TpTryRaises(e) ==
    /\ faults < MaxFaults
    /\ faults' = faults + 1
    /\ pending' = IF TerminateCatches(e) THEN "none" ELSE e
    /\ tpc' = "kill"

\* Line 107: p.terminate() sends SIGTERM to a running process, or raises.
TpTerminate ==
    /\ tpc = "terminate"
    /\ \/ /\ log' = Append(log, << "terminate", RoleOf(P), 0 >>)
          /\ tpc' = "wait"
          /\ UNCHANGED << pending, faults >>
       \/ /\ P \in alive
          /\ log' = log \o << << "terminate", RoleOf(P), 0 >>,
                               << "terminate_raised", RoleOf(P), 0 >> >>
          /\ TpTryRaises("OSError")
    /\ UNCHANGED << pc, k, sp, cp, results, password, server_cfg, client_cfg,
                    files, srv, cli, alive, httpd, exc, exitStatus >>
    /\ UNCHANGED << handlerVars, arg >>

\* Line 108: p.wait(timeout=4) returns when the process has exited, or raises
\* TimeoutExpired while it is still running.
TpWait ==
    /\ tpc = "wait"
    /\ \/ /\ alive' = alive \ {P}
          /\ log' = Append(log, << "wait_exited", RoleOf(P), 0 >>)
          /\ tpc' = "kill"
          /\ UNCHANGED << pending, faults >>
       \/ /\ P \in alive
          /\ log' = Append(log, << "wait_timeout", RoleOf(P), 0 >>)
          /\ TpTryRaises("TimeoutExpired")
          /\ UNCHANGED alive
    /\ UNCHANGED << pc, k, sp, cp, results, password, server_cfg, client_cfg,
                    files, srv, cli, httpd, exc, exitStatus >>
    /\ UNCHANGED << handlerVars, arg >>

\* The end of terminate_process: with `e` in flight it leaves main too.
TpFinish(e) ==
    /\ tpc' = "idle"
    /\ pending' = "none"
    /\ IF e = "none"
       THEN /\ ReturnToMain
            /\ UNCHANGED << exc, exitStatus >>
       ELSE Raise(e, "terminate_process")

\* Mutant: p.kill() signals the process whether it has exited or not.
KillSignalsAlways(p) == TRUE

\* Line 113: Popen.kill() sends SIGKILL only to a process whose exit has not
\* been collected; on one that has, it returns without signalling.
KillSignals(p) == p \in alive

\* Lines 111-115: the finally block.  p.kill() is always called: it does
\* nothing to a process whose exit was collected, kills a running one, or
\* raises.
TpKill ==
    /\ tpc = "kill"
    /\ \/ /\ log' = log \o << << "kill", RoleOf(P), 0 >> >>
                        \o (IF KillSignals(P)
                            THEN << << "SIGKILL", RoleOf(P), 0 >> >>
                            ELSE << >>)
          /\ alive' = alive \ {P}
          /\ TpFinish(pending)
          /\ UNCHANGED faults
       \/ /\ P \in alive
          /\ faults < MaxFaults
          /\ faults' = faults + 1
          /\ log' = Append(log, << "kill", RoleOf(P), 0 >>)
          /\ UNCHANGED alive
          /\ TpFinish(IF KillCatches("OSError") THEN pending ELSE "OSError")
    /\ UNCHANGED << k, sp, cp, results, password, server_cfg, client_cfg, files, srv, cli,
                    httpd >>
    /\ UNCHANGED << handlerVars, arg >>

\* Lines 234-237, after terminate_process(srv) of line 233 has returned.
RecordClientFailure ==
    /\ pc = "record_fail"
    /\ RecordStartFailure
    /\ UNCHANGED << k, password, server_cfg, client_cfg, files, srv, cli,
                    alive, tpc, pending, log, httpd, exc, exitStatus, faults >>
    /\ UNCHANGED << handlerVars, arg >>

\* Mutant: line 255 is missing, the client port is reused.
AdvanceNoClient ==
    /\ pc = "advance"
    /\ sp' = sp + StrideMeasured
    /\ cp' = cp
    /\ pc' = "loop"
    /\ UNCHANGED << k, results, password, server_cfg, client_cfg, files, srv,
                    cli, alive, tpc, pending, log, httpd, exc, exitStatus,
                    faults >>
    /\ UNCHANGED << handlerVars, arg >>

\* Lines 253-255: the sleep that lets the ports be released, then the ports
\* advance and the loop goes on.
Advance ==
    /\ pc = "advance"
    /\ sp' = sp + StrideMeasured
    /\ cp' = cp + StrideMeasured
    /\ pc' = "loop"
    /\ UNCHANGED << k, results, password, server_cfg, client_cfg, files, srv,
                    cli, alive, tpc, pending, log, httpd, exc, exitStatus,
                    faults >>
    /\ UNCHANGED << handlerVars, arg >>

(***************************************************************************)
(* The end of main, and the interrupt.                                     *)
(***************************************************************************)
\* The loop is exhausted; lines 257-258 stop the stream server.
Shutdown ==
    /\ pc = "loop"
    /\ k = Len(tests)
    /\ httpd' = "closed"
    /\ pc' = "summary"
    /\ UNCHANGED << k, sp, cp, results, password, server_cfg, client_cfg,
                    files, srv, cli, alive, tpc, pending, log, exc,
                    exitStatus, faults >>
    /\ UNCHANGED << handlerVars, arg >>

\* Lines 260-270 print the summary; main returns and the program exits 0.
Summary ==
    /\ pc = "summary"
    /\ pc' = "exit"
    /\ exitStatus' = 0
    /\ UNCHANGED << k, sp, cp, results, password, server_cfg, client_cfg,
                    files, srv, cli, alive, tpc, pending, log, httpd, exc,
                    faults >>
    /\ UNCHANGED << handlerVars, arg >>

\* Positions of main at which the program is running.
Running == pc \notin {"exit", "call", "returned"}

\* Mutant: main's loop body is in a try whose finally block reaps both
\* processes when the interrupt passes through.
InterruptWithCleanup ==
    /\ Running
    /\ IF tpc \in {"terminate", "wait"}
       THEN /\ pending' = "KeyboardInterrupt"
            /\ tpc' = "kill"
            /\ log' = Append(log, << "interrupted", RoleOf(P), 0 >>)
            /\ UNCHANGED << pc, exc, exitStatus, alive >>
       ELSE /\ Raise("KeyboardInterrupt", pc)
            /\ tpc' = "idle"
            /\ pending' = "none"
            /\ alive' = alive \ {srv, cli}
            /\ UNCHANGED log
    /\ UNCHANGED << k, sp, cp, results, password, server_cfg, client_cfg,
                    files, srv, cli, httpd, faults >>
    /\ UNCHANGED << handlerVars, arg >>

\* Ctrl-C: KeyboardInterrupt is raised in main wherever it is.  Inside the
\* try block of terminate_process the finally block still runs (line 109
\* does not catch it); anywhere else it leaves main (lines 276-278).
Interrupt ==
    /\ Running
    /\ IF tpc \in {"terminate", "wait"}
       THEN /\ pending' = "KeyboardInterrupt"
            /\ tpc' = "kill"
            /\ log' = Append(log, << "interrupted", RoleOf(P), 0 >>)
            /\ UNCHANGED << pc, exc, exitStatus >>
       ELSE /\ Raise("KeyboardInterrupt", pc)
            /\ tpc' = "idle"
            /\ pending' = "none"
            /\ UNCHANGED log
    /\ UNCHANGED << k, sp, cp, results, password, server_cfg, client_cfg,
                    files, srv, cli, alive, httpd, faults >>
    /\ UNCHANGED << handlerVars, arg >>

Next ==
    \/ StartHttpServer
    \/ NextMethod
    \/ GenPassword
    \/ WriteConfigs
    \/ LaunchServer
    \/ SettleServer
    \/ LaunchClient
    \/ SettleClient
    \/ RunCurl
    \/ TpEnter
    \/ TpTerminate
    \/ TpWait
    \/ TpKill
    \/ RecordClientFailure
    \/ Advance
    \/ Shutdown
    \/ Summary
    \/ Interrupt

Spec == Init /\ [][Next]_vars

(***************************************************************************)
(* The stream handler: InfiniteHandler.do_GET (lines 30-50), one request   *)
(* at a time.                                                              *)
(***************************************************************************)
\* Request paths a client may send.
Paths == {"/bench", "/", "/bench/", "/benchmark", "/bench?x=1"}

\* Mutant: the loop condition is `sent <= MAX_TEST_BYTES`.
StreamMoreInclusive(n) == n <= MAX_TEST_BYTES

\* Line 43: the condition of the while loop.
StreamMore(n) == n < MAX_TEST_BYTES

\* Mutant: line 47 names no exception, every write error reaches line 49.
HandlerSwallowsNothing(e) == FALSE

\* Line 47: the exceptions the handler swallows silently; BrokenPipeError and
\* ConnectionResetError are subclasses of OSError.
HandlerSwallows(e) ==
    e \in {"BrokenPipeError", "ConnectionResetError", "OSError"}

\* What a failed wfile.write or flush can raise.
WriteErrors == {"BrokenPipeError", "ConnectionResetError", "OSError",
                "ValueError"}

\* KiB of the chunk that may have reached the socket when the write or the
\* flush of lines 44-45 raised.
PartialWrites == {0, 1, ChunkLen - 1, ChunkLen}

\* Mutant: every path under /bench is served the stream.
IsBenchPathPrefix(pth) == pth \in {"/bench", "/bench/", "/benchmark", "/bench?x=1"}

\* Line 31: `self.path != "/bench"`, negated; the path is compared whole,
\* query string included.
IsBenchPath(pth) == pth = "/bench"

\* Lines 31-40: the status line and headers.
DoGet ==
    /\ hpc = "idle"
    /\ httpd = "serving"
    /\ \E pth \in Paths :
         /\ path' = pth
         /\ IF ~IsBenchPath(pth)
            THEN /\ status' = 404
                 /\ hpc' = "done"
            ELSE /\ status' = 200
                 /\ hpc' = "stream"
    /\ sent' = 0
    /\ wrote' = 0
    /\ UNCHANGED herr
    /\ UNCHANGED << driverVars, arg >>

\* Lines 43-50: one turn of the while loop.  A write error ends the handler
\* (swallowed at line 47, or printed at line 50).
WriteChunk ==
    /\ hpc = "stream"
    /\ StreamMore(sent)
    /\ \/ /\ wrote' = wrote + ChunkLen
          /\ sent' = sent + ChunkLen
          /\ UNCHANGED << hpc, herr >>
       \/ /\ \E e \in WriteErrors, part \in PartialWrites :
               /\ wrote' = wrote + part
               /\ herr' = e
               /\ hpc' = IF HandlerSwallows(e) THEN "done" ELSE "printed"
          /\ UNCHANGED sent
    /\ UNCHANGED << path, status >>
    /\ UNCHANGED << driverVars, arg >>

\* Line 43: the loop condition fails and do_GET returns.
StreamEnd ==
    /\ hpc = "stream"
    /\ ~StreamMore(sent)
    /\ hpc' = "done"
    /\ UNCHANGED << path, status, sent, wrote, herr >>
    /\ UNCHANGED << driverVars, arg >>

\* The request is over; the server thread takes the next one.
NextRequest ==
    /\ hpc \in {"done", "printed"}
    /\ hpc' = "idle"
    /\ UNCHANGED << path, status, sent, wrote, herr >>
    /\ UNCHANGED << driverVars, arg >>

\* The stream server while main is in its loop.
InitStream ==
    /\ InitHandler
    /\ pc = "loop"
    /\ httpd = "serving"
    /\ k = 0
    /\ sp = BASE_SERVER_PORT
    /\ cp = BASE_CLIENT_PORT
    /\ results = << >>
    /\ password = None
    /\ server_cfg = NoConfig
    /\ client_cfg = NoConfig
    /\ files = {}
    /\ srv = None
    /\ cli = None
    /\ alive = {}
    /\ tpc = "idle"
    /\ pending = "none"
    /\ log = << >>
    /\ exc = NoExc
    /\ exitStatus = -1
    /\ faults = 0
    /\ arg = NoArg

NextStream ==
    \/ DoGet
    \/ WriteChunk
    \/ StreamEnd
    \/ NextRequest

SpecStream == InitStream /\ [][NextStream]_vars

(***************************************************************************)
(* terminate_process called on any handle: None, a running process, or a   *)
(* process that has exited.                                                *)
(***************************************************************************)
InitCall ==
    /\ InitHandler
    /\ pc = "call"
    /\ k = 1
    /\ srv \in {None, << 1, "server" >>, << 1, "client" >>}
    /\ alive \in SUBSET {<< 1, "server" >>, << 1, "client" >>}
    /\ cli = None
    /\ sp = BASE_SERVER_PORT
    /\ cp = BASE_CLIENT_PORT
    /\ results = << >>
    /\ password = None
    /\ server_cfg = NoConfig
    /\ client_cfg = NoConfig
    /\ files = {}
    /\ tpc = "idle"
    /\ pending = "none"
    /\ log = << >>
    /\ httpd = "serving"
    /\ exc = NoExc
    /\ exitStatus = -1
    /\ faults = 0
    /\ arg = NoArg

\* main's runs, and the calls of terminate_process on any handle.
SpecTerminate == (Init \/ InitCall) /\ [][Next]_vars

(***************************************************************************)
(* gen_ss_config called on its own, on any method, secret and ports.       *)
(***************************************************************************)
\* How many ports above each base the calls are given.
PortSpan == 2

\* The ports a caller may pass, as server port or as client port.
Ports ==
    {BASE_SERVER_PORT + i : i \in 0 .. PortSpan}
        \cup {BASE_CLIENT_PORT + i : i \in 0 .. PortSpan}

Methods == {tests[i] : i \in 1 .. Len(tests)}

InitConfig ==
    /\ InitHandler
    /\ pc = "gen_cfg"
    /\ arg \in [method : Methods,
                password : {gen_password(128), gen_password(256)},
                server_port : Ports,
                client_port : Ports]
    /\ k = 0
    /\ sp = BASE_SERVER_PORT
    /\ cp = BASE_CLIENT_PORT
    /\ results = << >>
    /\ password = None
    /\ server_cfg = NoConfig
    /\ client_cfg = NoConfig
    /\ files = {}
    /\ srv = None
    /\ cli = None
    /\ alive = {}
    /\ tpc = "idle"
    /\ pending = "none"
    /\ log = << >>
    /\ httpd = "none"
    /\ exc = NoExc
    /\ exitStatus = -1
    /\ faults = 0

\* Lines 121-164: the call returns the pair.
GenConfig ==
    /\ pc = "gen_cfg"
    /\ LET cfgs == gen_ss_config(arg.method, arg.password, arg.server_port,
                                 arg.client_port)
       IN  /\ server_cfg' = cfgs[1]
           /\ client_cfg' = cfgs[2]
    /\ pc' = "configured"
    /\ UNCHANGED << k, sp, cp, results, password, files, srv, cli, alive, tpc,
                    pending, log, httpd, exc, exitStatus, faults >>
    /\ UNCHANGED << handlerVars, arg >>

NextConfig == GenConfig

SpecConfig == InitConfig /\ [][NextConfig]_vars

(***************************************************************************)
(* get_pwd_for_method called on its own, on any method name.               *)
(***************************************************************************)
\* The longest name made of the characters that matter to line 76.
MaxNameLen == 4

NameChars == {"1", "2", "8", "-"}

\* The names of main's tests, and every short name over NameChars.
Names ==
    {Chars(m) : m \in Methods}
        \cup UNION {[1 .. n -> NameChars] : n \in 0 .. MaxNameLen}

InitPwd ==
    /\ InitHandler
    /\ pc = "get_pwd"
    /\ arg \in Names
    /\ k = 0
    /\ sp = BASE_SERVER_PORT
    /\ cp = BASE_CLIENT_PORT
    /\ results = << >>
    /\ password = None
    /\ server_cfg = NoConfig
    /\ client_cfg = NoConfig
    /\ files = {}
    /\ srv = None
    /\ cli = None
    /\ alive = {}
    /\ tpc = "idle"
    /\ pending = "none"
    /\ log = << >>
    /\ httpd = "none"
    /\ exc = NoExc
    /\ exitStatus = -1
    /\ faults = 0

\* Lines 75-78: the call returns the secret openssl gave.
GetPwd ==
    /\ pc = "get_pwd"
    /\ password' = get_pwd_for_method(arg)
    /\ pc' = "got_pwd"
    /\ UNCHANGED << k, sp, cp, results, server_cfg, client_cfg, files, srv,
                    cli, alive, tpc, pending, log, httpd, exc, exitStatus,
                    faults >>
    /\ UNCHANGED << handlerVars, arg >>

NextPwd == GetPwd

SpecPwd == InitPwd /\ [][NextPwd]_vars

(***************************************************************************)
(* Properties.                                                             *)
(***************************************************************************)
\* The current iteration made the call `call` for `role`.
Logged(call, role) ==
    \E i \in 1 .. Len(log) : log[i][1] = call /\ log[i][2] = role

\* The place of that call among the iteration's calls.
IndexOf(call, role) ==
    CHOOSE i \in 1 .. Len(log) : log[i][1] = call /\ log[i][2] = role

\* The handle h was returned by start_singbox in the current iteration.
Started(h) == h # None /\ h[1] = k

\* An iteration has ended and the next has not begun.
IterationOver == pc = "loop" /\ k >= 1

\* The ports the current iteration generated its configs at.
IterServerPort == server_cfg.inbounds[1].listen_port
IterClientPort == client_cfg.inbounds[1].listen_port

\* C1, as claimed: every iteration advances both port counters by exactly 2
\* before the next iteration begins, however it ended.
C1_StrideAlwaysTwo ==
    IterationOver =>
        /\ sp = IterServerPort + 2
        /\ cp = IterClientPort + 2

\* C1, amended: every iteration advances both port counters by the same
\* amount before the next iteration begins: by 2 when both processes started
\* (the transfer succeeded or failed), by 1 when the server or the client
\* failed to start.
C1_StrideByOutcome ==
    IterationOver =>
        LET d == IF Started(srv) /\ Started(cli) THEN 2 ELSE 1
        IN  /\ sp = IterServerPort + d
            /\ cp = IterClientPort + d

\* The second iteration ended with a client start failure after a first
\* iteration that measured.
C1_Witness ==
    /\ IterationOver
    /\ k = 2
    /\ Started(srv)
    /\ cli = None
    /\ sp = BASE_SERVER_PORT + 3
    /\ cp = BASE_CLIENT_PORT + 3

\* C2: the results list holds one entry per method begun, in the order of
\* the test list: the first k-1 methods when the k-th iteration starts, the
\* first k when it has ended, all of them when the loop has finished.
C2_OneResultPerMethod ==
    /\ \A j \in 1 .. Len(results) : j <= Len(tests) /\ results[j][1] = tests[j]
    /\ Len(results) \in {k - 1, k}
    /\ pc = "gen_pwd" => Len(results) = k - 1
    /\ pc = "loop" => Len(results) = k
    /\ (pc = "summary" \/ exitStatus = 0) => Len(results) = Len(tests)

\* The loop has finished after a start failure, a measurement and more.
C2_Witness ==
    /\ pc = "summary"
    /\ Len(results) = Len(tests)
    /\ results[1][2] = None
    /\ results[2][2] # None
    /\ results[3][2] = None

\* C3, as claimed: every tunnel process that is running was launched by the
\* current iteration.
C3_Sequential == \A p \in alive : p[1] = k

\* C4: when an iteration has ended, terminate_process was called on every
\* handle it obtained; the server's call comes after the client's when both
\* started.
C4_TornDown ==
    /\ IterationOver =>
          /\ Started(srv) => Logged("terminate_process", "server")
          /\ Started(cli) => Logged("terminate_process", "client")
    /\ (Logged("terminate_process", "server") /\ Started(cli)) =>
          /\ Logged("terminate_process", "client")
          /\ IndexOf("terminate_process", "client")
                < IndexOf("terminate_process", "server")

\* Both processes started, the transfer failed, the iteration has ended.
C4_Witness ==
    /\ IterationOver
    /\ Started(srv)
    /\ Started(cli)
    /\ results[k][2] = None

\* C5: run_curl is called only after both start_singbox calls of the
\* iteration returned a handle; the client is launched only after the server
\* started; an iteration in which a start failed records (method, None).
C5_ShortCircuit ==
    /\ Logged("run_curl", "client") =>
          /\ Started(srv)
          /\ Started(cli)
          /\ IndexOf("start_singbox", "server")
                < IndexOf("start_singbox", "client")
          /\ IndexOf("start_singbox", "client") < IndexOf("run_curl", "client")
    /\ Logged("start_singbox", "client") => Started(srv)
    /\ (IterationOver /\ ~(Started(srv) /\ Started(cli))) =>
          /\ ~Logged("run_curl", "client")
          /\ results[k] = << method, None >>

\* The second iteration's server failed to start.
C5_Witness ==
    /\ IterationOver
    /\ k = 2
    /\ srv = None
    /\ ~Logged("start_singbox", "client")

\* The iteration that wrote config file f, and the port f listens on.
MethodIndex ==
    [m \in {tests[i] : i \in 1 .. Len(tests)} |->
        CHOOSE i \in 1 .. Len(tests) : tests[i] = m]
IterOf(f) == MethodIndex[f.path[2]]
ListenPort(f) == f.cfg.inbounds[1].listen_port

\* C6: the server port of the current iteration is greater than the server
\* port of every earlier iteration, its client port greater than every
\* earlier client port, and its ports differ from every port of the other
\* role, its own iteration's included.
C6_PortsNeverCollide ==
    \A g \in files :
        IterOf(g) = k =>
            \A f \in files :
                /\ (f.path[1] = g.path[1] /\ IterOf(f) < k) =>
                      ListenPort(f) < ListenPort(g)
                /\ f.path[1] # g.path[1] => ListenPort(f) # ListenPort(g)

\* Six iterations ran, three of them with a start failure.
C6_Witness ==
    /\ pc = "summary"
    /\ Cardinality(files) = 2 * Len(tests)
    /\ sp = BASE_SERVER_PORT + 9

\* The transfer of the current iteration raised inside run_curl.
TransferFailed ==
    \E i \in 1 .. Len(log) : log[i][1] = "curl_raised" /\ log[i][2] # "none"

\* C7: a failing transfer does not raise out of run_curl; the iteration
\* records (method, None), calls terminate_process on both processes and
\* returns to the loop; nothing but an interrupt ends the run in it.
C7_FailedTransfer ==
    TransferFailed =>
        /\ exc.from # "run_curl"
        /\ Len(results) = k
        /\ results[k] = << method, None >>
        /\ pc = "exit" => (exc.type = "KeyboardInterrupt" \/ exitStatus = 0)
        /\ pc = "loop" =>
              /\ Logged("terminate_process", "client")
              /\ Logged("terminate_process", "server")

\* curl printed something that is not a number, and the iteration has ended.
C7_Witness ==
    /\ IterationOver
    /\ \E i \in 1 .. Len(log) : log[i] = << "curl_raised", "ValueError", 0 >>

\* C8, as claimed: once in the loop, the run ends only by an interrupt or
\* after the summary.
C8_NoAbort ==
    (pc = "exit" /\ k >= 1 /\ exc.type # "KeyboardInterrupt") => exitStatus = 0

\* C9: the body bytes written for one request never exceed MAX_TEST_BYTES,
\* and once `sent` has reached it the handler writes nothing more.
C9_Ceiling ==
    /\ [](wrote <= MAX_TEST_BYTES /\ sent <= MAX_TEST_BYTES)
    /\ [][(hpc = "stream" /\ sent >= MAX_TEST_BYTES) =>
             (wrote' = wrote /\ hpc' = "done")]_vars

\* A request was served up to the ceiling.
C9_Witness ==
    /\ hpc = "done"
    /\ status = 200
    /\ sent = MAX_TEST_BYTES
    /\ wrote = MAX_TEST_BYTES

\* C10: no exception but an interrupt leaves terminate_process; called with
\* None it returns at once, signalling nothing; no step of it changes the
\* results.
C10_NeverPropagates ==
    /\ [](exc.from = "terminate_process" => exc.type = "KeyboardInterrupt")
    /\ [][(pc \in TermSites /\ tpc = "idle" /\ P = None) =>
             /\ ReturnToMain
             /\ tpc' = "idle"
             /\ log' = Append(log, << "terminate_process", "none", 0 >>)
             /\ UNCHANGED << alive, exc, exitStatus, faults, results >>]_vars
    /\ [][(tpc # "idle" \/ (pc \in TermSites /\ tpc = "idle")) =>
             results' = results]_vars

\* terminate_process returned although the wait timed out and kill raised:
\* the process is still running.
C10_Witness ==
    /\ pc = "returned"
    /\ faults >= 2
    /\ srv \in alive

\* The number of start_singbox calls the current iteration made for `role`.
Launches(role) ==
    Cardinality({i \in 1 .. Len(log) :
                    log[i][1] = "start_singbox" /\ log[i][2] = role})

\* C11, as claimed: start_singbox never raises; each call launches once; the
\* handle it returns is the process when that is running at the end of the
\* settle window, and None when it has exited.
C11_ValueNeverRaises ==
    /\ exc.from # "start_singbox"
    /\ Launches("server") <= 1
    /\ Launches("client") <= 1
    /\ \A p \in alive : p[1] = k => Launches(p[2]) = 1
    /\ pc = "start_cli" => (srv = Proc("server") /\ srv \in alive)
    /\ pc = "curl" => (cli = Proc("client") /\ cli \in alive)
    /\ pc = "cli_failed" => (cli = None /\ Proc("client") \notin alive)

\* C12: the stream server goes from not started to serving once, at the
\* start of main before any iteration, and from serving to closed once, when
\* the loop is exhausted and the last iteration has recorded its result;
\* nothing else changes it; it is serving at every position of every
\* iteration, the transfer included, and closed when the run completes.
C12_ServerSpansTheLoop ==
    /\ []((k >= 1 /\ pc \notin {"summary", "exit"}) => httpd = "serving")
    /\ [](pc = "curl" => httpd = "serving")
    /\ []((pc = "summary" \/ exitStatus = 0) => httpd = "closed")
    /\ [][httpd' # httpd =>
             \/ /\ httpd = "none"
                /\ httpd' = "serving"
                /\ pc = "start"
                /\ k = 0
             \/ /\ httpd = "serving"
                /\ httpd' = "closed"
                /\ pc = "loop"
                /\ k = Len(tests)
                /\ Len(results) = Len(tests)
                /\ tpc = "idle"]_vars

\* The server was stopped after a run whose last iteration made a transfer.
C12_Witness ==
    /\ pc = "summary"
    /\ httpd = "closed"
    /\ Logged("run_curl", "client")
    /\ Logged("terminate_process", "server")

\* The exceptions a write raises when the client has gone away.
Disconnects == {"BrokenPipeError", "ConnectionResetError"}

\* C13: a write of a /bench response that fails because the client has gone
\* away ends the handler silently (nothing is printed, nothing leaves the
\* handler); once a write has failed the request gets no further write; the
\* server stays up and takes the next request.
C13_DisconnectSwallowed ==
    /\ [][(hpc = "stream" /\ StreamMore(sent) /\ hpc' # "stream") =>
             /\ herr' \in WriteErrors
             /\ herr' \in Disconnects => hpc' = "done"
             /\ sent' = sent]_vars
    /\ [][(hpc \in {"done", "printed"}) =>
             (wrote' = wrote /\ sent' = sent /\ hpc' = "idle")]_vars
    /\ [](httpd = "serving")
    /\ [](hpc \in {"done", "printed"} => ENABLED NextRequest)
    /\ [](hpc = "idle" => ENABLED DoGet)

\* After a client reset the connection part-way through a chunk, a later
\* /bench request is being streamed.
C13_Witness ==
    /\ herr = "ConnectionResetError"
    /\ hpc = "stream"
    /\ path = "/bench"
    /\ wrote >= 2 * ChunkLen

\* C14: a request whose path is not exactly /bench is answered 404 and gets
\* no payload byte, whatever was served before it; a request to /bench is
\* answered 200, and payload is written only for such a request.
C14_OnlyBenchStreams ==
    /\ path \in Paths \ {"/bench"} =>
          /\ status = 404
          /\ wrote = 0
          /\ sent = 0
          /\ hpc \in {"done", "idle"}
    /\ path = "/bench" => status = 200
    /\ wrote > 0 => (path = "/bench" /\ status = 200)
    /\ hpc = "stream" => path = "/bench"

\* A request that only adds a query string to /bench was refused, after a
\* /bench request had been served.
C14_Witness ==
    /\ hpc = "done"
    /\ path = "/bench?x=1"
    /\ status = 404
    /\ wrote = 0
    /\ herr # "none"

\* C15: the pair gen_ss_config returns carries the method and the secret it
\* was given in the server's inbound and in the client's tunnel outbound
\* alike; the tunnel outbound's server_port is the server inbound's
\* listen_port, the given server port; the client's only inbound is a SOCKS
\* inbound on the given client port; its only routing rule names the tunnel
\* outbound ss-out, which is not the direct outbound.
C15_PairConsistent ==
    pc = "configured" =>
        LET sin == server_cfg.inbounds[1]
            cin == client_cfg.inbounds[1]
            tunnel == client_cfg.outbounds[1]
            rules == client_cfg.route.rules
        IN  /\ Len(server_cfg.inbounds) = 1
            /\ Len(client_cfg.inbounds) = 1
            /\ sin.method = tunnel.method
            /\ sin.method = arg.method
            /\ sin.password = tunnel.password
            /\ sin.password = arg.password
            /\ tunnel.server_port = sin.listen_port
            /\ sin.listen_port = arg.server_port
            /\ cin.type = "socks"
            /\ cin.listen_port = arg.client_port
            /\ Len(rules) = 1
            /\ rules[1].outbound = tunnel.tag
            /\ tunnel.tag = "ss-out"
            /\ tunnel.type = "shadowsocks"
            /\ \A i \in 2 .. Len(client_cfg.outbounds) :
                   client_cfg.outbounds[i].tag # rules[1].outbound

\* A pair was generated for a 2022 method with a 128-bit secret and two
\* different ports.
C15_Witness ==
    /\ pc = "configured"
    /\ arg.method = "2022-blake3-aes-128-gcm"
    /\ arg.password = gen_password(128)
    /\ arg.server_port = BASE_SERVER_PORT + 1
    /\ arg.client_port = BASE_CLIENT_PORT + 1
    /\ client_cfg.outbounds[1].server_port = BASE_SERVER_PORT + 1

\* The name has the characters 1, 2, 8 in a row.
Has128(name) ==
    \E i \in 1 .. Len(name) - 2 :
        name[i] = "1" /\ name[i + 1] = "2" /\ name[i + 2] = "8"

\* C16: the secret get_pwd_for_method asks for has 16 bytes when the name
\* contains "128" and 32 bytes otherwise; it has 32 bytes for "none" and for
\* "chacha20-ietf-poly1305".
C16_SecretSize ==
    pc = "got_pwd" =>
        /\ password.bytes = IF Has128(arg) THEN 16 ELSE 32
        /\ arg \in {Chars("none"), Chars("chacha20-ietf-poly1305")} =>
              password.bytes = 32

\* A name that contains "128" away from its start got a 16-byte secret.
C16_Witness ==
    /\ pc = "got_pwd"
    /\ arg = << "-", "1", "2", "8" >>
    /\ password.bytes = 16

\* C17: the program exits once, with 0 or 1.  It exits with 0 exactly when
\* main returns, which it does only after the summary of a loop that took
\* every method and recorded a result for each, whatever the results are.
\* An interrupt, wherever it arrives (a pending one inside terminate_process
\* included), makes it exit with 1.
C17_ExitStatus ==
    /\ [](exitStatus \in {-1, 0, 1})
    /\ [](pc = "exit" <=> exitStatus # -1)
    /\ [](exitStatus = 0 <=> (pc = "exit" /\ exc = NoExc))
    /\ [](exitStatus = 0 =>
            /\ k = Len(tests)
            /\ Len(results) = Len(tests)
            /\ httpd = "closed")
    /\ [](exc.type = "KeyboardInterrupt" => exitStatus = 1)
    /\ [](pending = "KeyboardInterrupt" => exitStatus = -1)
    /\ [][exitStatus' # exitStatus =>
             /\ exitStatus = -1
             /\ \/ exitStatus' = 0 /\ pc = "summary" /\ exc' = NoExc
                \/ exitStatus' = 1 /\ exc' # NoExc]_vars
    /\ [][(pc = "summary" /\ exc' = NoExc /\ pc' # pc) => exitStatus' = 0]_vars
    /\ [][(pending = "KeyboardInterrupt" /\ pending' # pending) =>
             (exitStatus' = 1 /\ exc'.type = "KeyboardInterrupt")]_vars

\* A run with one start failure, whose last transfer failed, exited with 0.
C17_Witness ==
    /\ pc = "exit"
    /\ exitStatus = 0
    /\ sp = BASE_SERVER_PORT + 11
    /\ TransferFailed
    /\ results[1][2] = None
    /\ results[Len(tests)][2] = None

Roles == {"server", "client"}

\* The last call the current iteration logged.
LastCall(l) == IF l = << >> THEN << "none", "none", 0 >> ELSE l[Len(l)]

\* C18, as claimed: a process is sent SIGKILL only after terminate() was
\* attempted on it and the bounded wait that followed timed out.
C18_KillOnlyAfterWait ==
    \A r \in Roles :
        Logged("SIGKILL", r) =>
            /\ Logged("terminate", r)
            /\ Logged("wait_timeout", r)
            /\ IndexOf("terminate", r) < IndexOf("wait_timeout", r)
            /\ IndexOf("wait_timeout", r) < IndexOf("SIGKILL", r)

\* C18, amended: p.kill() is called before terminate_process returns, after
\* terminate() was attempted; SIGKILL is sent only to a process that is still
\* running then, which is the case after the wait timed out, or with no
\* completed wait at all when terminate() raised or an interrupt arrived
\* before the wait returned; a process whose exit the wait collected is
\* never sent SIGKILL.
C18_KillOnlyRunning ==
    /\ [](\A r \in Roles :
            /\ Logged("kill", r) =>
                  /\ Logged("terminate", r) \/ Logged("interrupted", r)
                  /\ Logged("terminate", r) =>
                        IndexOf("terminate", r) < IndexOf("kill", r)
            /\ Logged("SIGKILL", r) =>
                  /\ ~Logged("wait_exited", r)
                  /\ \/ Logged("wait_timeout", r)
                     \/ Logged("terminate_raised", r)
                     \/ Logged("interrupted", r)
            /\ Logged("wait_exited", r) => ~Logged("SIGKILL", r)
            /\ (Logged("wait_timeout", r) \/ Logged("wait_exited", r)) =>
                  /\ Logged("terminate", r)
                  /\ ~Logged("terminate_raised", r))
    /\ [][(LastCall(log')[1] = "SIGKILL" /\ log' # log) =>
             (P \in alive /\ P \notin alive')]_vars
    /\ [][(tpc = "kill" /\ tpc' = "idle" /\ pc' # "exit") =>
             LastCall(log') \in {<< "kill", RoleOf(P), 0 >>,
                                 << "SIGKILL", RoleOf(P), 0 >>}]_vars

\* terminate() raised on the client, which was killed at once, with no wait,
\* and terminate_process returned to main.
C18_Witness ==
    /\ pc = "term_srv"
    /\ tpc = "idle"
    /\ Logged("terminate_raised", "client")
    /\ Logged("SIGKILL", "client")
    /\ ~Logged("wait_timeout", "client")
    /\ ~Logged("interrupted", "client")
    /\ cli \notin alive

\* The handle h was obtained in the current iteration and terminate_process
\* has not been called on it.
Held(h) == Started(h) /\ ~Logged("terminate_process", RoleOf(h))

\* C19: when an interrupt has ended the run, the exit status is 1, main is
\* not inside terminate_process, and every handle the current iteration
\* obtained and had not yet passed to terminate_process names a process that
\* is still running.
C19_InterruptLeaks ==
    (pc = "exit" /\ exc.type = "KeyboardInterrupt") =>
        /\ exitStatus = 1
        /\ tpc = "idle"
        /\ \A h \in {srv, cli} : Held(h) => h \in alive

\* The interrupt arrived during the transfer: both tunnel processes of the
\* iteration are running after the program exited with 1.
C19_Witness ==
    /\ pc = "exit"
    /\ exitStatus = 1
    /\ exc = [type |-> "KeyboardInterrupt", from |-> "curl"]
    /\ Held(srv)
    /\ Held(cli)
    /\ {srv, cli} \subseteq alive

\* C20: from the writing of the configs to the end of the teardown the port
\* counters keep the values the configs were generated at; the config files
\* of the iteration hold those configs; the port run_curl was given is the
\* listen_port of the client config's SOCKS inbound, and the server_port of
\* its tunnel outbound is the listen_port of the server config, the ports
\* the two processes were started on.
C20_TransferUsesIterationPorts ==
    /\ pc \in {"start_srv", "srv_settle", "start_cli", "cli_settle",
                "cli_failed", "curl", "term_cli", "term_srv", "record_fail",
                "advance"} =>
          /\ sp = IterServerPort
          /\ cp = IterClientPort
    /\ Logged("run_curl", "client") =>
          /\ log[IndexOf("run_curl", "client")][3] = IterClientPort
          /\ log[IndexOf("start_singbox", "client")][3] = IterClientPort
          /\ log[IndexOf("start_singbox", "server")][3] = IterServerPort
          /\ client_cfg.inbounds[1].type = "socks"
          /\ client_cfg.outbounds[1].server_port = IterServerPort
          /\ [path |-> c_path, cfg |-> client_cfg] \in files
          /\ [path |-> s_path, cfg |-> server_cfg] \in files

\* The second iteration made its transfer through the port that the start
\* failure of the first left the counter at.
C20_Witness ==
    /\ pc = "advance"
    /\ k = 2
    /\ Logged("run_curl", "client")
    /\ log[IndexOf("run_curl", "client")][3] = BASE_CLIENT_PORT + 1
    /\ cp = BASE_CLIENT_PORT + 1
    /\ sp = BASE_SERVER_PORT + 1

====
